---- MODULE Spec2Model ----
(***************************************************************************)
(* State-machine model of the API manager of modules/api                   *)
(* (src/modules/api/src/manager.rs) and of the aggregator it serves        *)
(* (src/modules/api/src/lib.rs).                                           *)
(*                                                                         *)
(* The control loop (ApiManager::run / run_inner) is one process whose     *)
(* position is pc; every await of the loop is a step boundary.  Each       *)
(* started listener is a spawned task (manager.rs:215-228) that waits for  *)
(* its server to finish and then sends the outcome to the completion       *)
(* channel it was given.  The producer of the update stream, the outcome   *)
(* of a bind attempt, a listener crash and an OS signal are environment    *)
(* choices.                                                                *)
(***************************************************************************)
EXTENDS Integers, Sequences, FiniteSets, TLC

\* ------------------------------------------------------------------ bounds
\* Number of UpdateEndpoints values the producer sends in one run.
MaxUpdates == 2
\* Largest max_retries argument given to ApiManagerConfig::with_retries.
MaxRetriesArg == 2
\* Longest text given to AllowOrigin::from_str or read as a bare string.
MaxTextLen == 4
\* Longest list of hosts read by the AllowOrigin deserializer.
MaxHosts == 2

\* ------------------------------------------------------- program constants
\* Default for ApiManagerConfig (manager.rs:95-96).
DefaultRetryTimeout == 500
DefaultMaxRetries == 20

\* ------------------------------------------------------------- data domain
\* enum ApiAccess (lib.rs:119-122).
ApiAccess == {"Public", "Private"}

\* Service names and ApiBuilder values registered by services.
ServiceNames == {"a", "b"}

\* Value used where a map has no entry for a key.
Absent == "absent"

\* ApiAggregator (lib.rs:139-142): BTreeMap<String, ApiBuilder>, a map from
\* every service name to its builder or to Absent.
ApiAggregatorNew == [n \in ServiceNames |-> Absent]

\* Variant of AggregatorInsert: an existing entry is kept.
AggregatorInsert_keepOld(agg, name, api) ==
    IF agg[name] = Absent THEN [agg EXCEPT ![name] = api] ELSE agg

\* ApiAggregator::insert (lib.rs:149-151): BTreeMap::insert, the new builder
\* replaces the one stored under the same name.
AggregatorInsert(agg, name, api) == [agg EXCEPT ![name] = api]

\* ApiAggregator::extend (lib.rs:153-155): BTreeMap::extend inserts the
\* items in iteration order, so a later item overrides an earlier one.
RECURSIVE AggregatorExtend(_, _)
AggregatorExtend(agg, endpoints) ==
    IF endpoints = <<>> THEN agg
    ELSE AggregatorExtend(AggregatorInsert(agg, Head(endpoints)[1], Head(endpoints)[2]),
                          Tail(endpoints))

\* Static aggregators a configuration is built with.
StaticAggregators ==
    { AggregatorInsert(ApiAggregatorNew, "a", "b1") }

\* UpdateEndpoints::new (manager.rs:102-110): an ordered list of
\* (service name, builder); names may repeat and may shadow static services.
UpdateValues ==
    { << <<"a", "b2">> >>,
      << <<"b", "b1">>, <<"b", "b2">> >> }

\* ----------------------------------------------------------- configuration
\* impl Default for ApiManagerConfig (manager.rs:90-100).
ConfigDefault ==
    [ servers |-> {},
      api_aggregator |-> ApiAggregatorNew,
      server_restart_retry_timeout |-> DefaultRetryTimeout,
      server_restart_max_retries |-> DefaultMaxRetries,
      disable_signals |-> FALSE ]

\* ApiManagerConfig::new (manager.rs:67-76).
ConfigNew(servers_, api_aggregator_) ==
    [ConfigDefault EXCEPT !.servers = servers_, !.api_aggregator = api_aggregator_]

\* ApiManagerConfig::with_retries (manager.rs:78-82): stores both arguments
\* as given; the u16 argument is not validated.
ConfigWithRetries(cfg, timeout, max_retries) ==
    [cfg EXCEPT !.server_restart_retry_timeout = timeout,
                !.server_restart_max_retries = max_retries]

\* ApiManagerConfig::disable_signals (manager.rs:84-87).
ConfigDisableSignals(cfg) == [cfg EXCEPT !.disable_signals = TRUE]

\* Sets of servers (keys of the HashMap<ApiAccess, WebServerConfig>) a
\* configuration is built with.
ServerSets == { {"Public", "Private"}, {"Public"} }

\* The configurations a run starts from: ApiManagerConfig::new followed by
\* with_retries with a max_retries argument within the bound (the default of
\* 20 attempts is replaced by the argument), with or without disable_signals.
BuildableConfigs ==
    LET base == { ConfigNew(s, g) : s \in ServerSets, g \in StaticAggregators }
        retr == { ConfigWithRetries(c, DefaultRetryTimeout, m) :
                      c \in base, m \in 0..MaxRetriesArg }
    IN  retr \cup { ConfigDisableSignals(c) : c \in retr }

\* ------------------------------------------------------------------- state
VARIABLES
    config,       \* ApiManager.config (manager.rs:161)
    servers,      \* ApiManager.servers: handles of the listeners it owns (manager.rs:162)
    endpoints,    \* ApiManager.endpoints: the dynamic endpoint set (manager.rs:163)
    pc,           \* position of the control loop in run / run_inner
    rxGen,        \* identity of the completion channel run_inner holds (manager.rs:258, 269)
    rxAlive,      \* the receiver of that channel still exists
    chan,         \* messages buffered in that channel
    retry,        \* per access level: state of its with_retries future (manager.rs:122-146)
    lst,          \* per listener: life-cycle state of the server and its task
    tx,           \* per listener: channel its task's sender clone belongs to (manager.rs:212)
    served,       \* per listener: aggregator its app factory was given (manager.rs:183-184, 297)
    sends,        \* per listener: number of sends its task has made (manager.rs:227)
    stream,       \* updates in the stream, not yet taken (endpoints_rx)
    streamClosed, \* the producer has closed the stream
    sentLog,      \* every update the producer has sent, in order
    applied,      \* every update run_inner has stored in self.endpoints, in order
    nStops,       \* calls of stop_servers made for a restart (manager.rs:271)
    nStarts,      \* calls of start_servers (manager.rs:273)
    nStarted,     \* calls of start_servers that returned Ok
    result,       \* what run returned; kind "none" while it has not
    taken,        \* the update taken whose restart waits in stop_servers (manager.rs:266-271)
    inner,        \* what run_inner returned to run (manager.rs:247)
    cors,         \* the last AllowOrigin conversion made (cors.rs)
    errs,         \* the last Error conversion made (error.rs, end/actix.rs:98-117)
    rq            \* the request being dispatched (end/actix.rs:173-231, 263-297)

vars == << config, servers, endpoints, pc, rxGen, rxAlive, chan,
           retry, lst, tx, served, sends, stream, streamClosed, sentLog, applied,
           nStops, nStarts, nStarted, result, taken, inner, cors, errs, rq >>

\* The variables of the conversions and of request dispatch, which the
\* manager does not touch.
leafVars == << cors, errs, rq >>

\* No conversion made, no request received.
Idle == [op |-> "idle"]

\* A generation is one start of the listener set; generation g is the one
\* started for the g-th update taken.
Gens == 1..MaxUpdates
Listeners == Gens \X ApiAccess

NoListener == <<0, "-">>
NoResult == [kind |-> "none", who |-> NoListener]
\* Ok(()) and the two io::Error values run can return: the error of
\* with_retries (manager.rs:141-145) and the error a server ended with.
OkResult == [kind |-> "Ok", who |-> NoListener]
BindError(g, a) == [kind |-> "BindErr", who |-> <<g, a>>]
ListenerError(l) == [kind |-> "ListenerErr", who |-> l]

\* No update is held by the loop; an update taken from the stream.
NoRequest == [some |-> FALSE, endpoints |-> <<>>]
SomeRequest(u) == [some |-> TRUE, endpoints |-> u]

\* State of a with_retries future that has not been created or was consumed.
RetryIdle == [at |-> "idle", attempt |-> 0, fails |-> 0, delays |-> 0]

\* A listener holds its socket from a successful bind (manager.rs:291) until
\* its server is dropped unstarted or has finished; a server that was sent a
\* stop and has not stopped yet still runs.
Bound(l) == lst[l] \in {"bound", "running", "stopping"}

\* Variant of Init: run enters start_servers before it waits for an update.
Init_startsServers ==
    /\ config \in BuildableConfigs
    /\ servers = {}
    /\ endpoints = <<>>
    /\ pc = "starting"
    /\ rxGen = 0
    /\ rxAlive = TRUE
    /\ chan = <<>>
    /\ retry = [a \in ApiAccess |->
                  IF a \in config.servers
                  THEN [RetryIdle EXCEPT !.at = "try"]
                  ELSE RetryIdle]
    /\ lst = [l \in Listeners |-> "none"]
    /\ tx = [l \in Listeners |-> 0]
    /\ served = [l \in Listeners |-> ApiAggregatorNew]
    /\ sends = [l \in Listeners |-> 0]
    /\ stream = <<>>
    /\ streamClosed = FALSE
    /\ sentLog = <<>>
    /\ applied = <<>>
    /\ nStops = 0
    /\ nStarts = 1
    /\ nStarted = 0
    /\ result = NoResult
    /\ taken = NoRequest
    /\ inner = NoResult
    /\ cors = Idle
    /\ errs = Idle
    /\ rq = Idle

\* ApiManager::new (manager.rs:166-173) on a configuration the builder chain
\* produced, followed by the call of run with an empty, open stream.
Init ==
    /\ config \in BuildableConfigs
    /\ servers = {}
    /\ endpoints = <<>>
    /\ pc = "wait"
    /\ rxGen = 0
    /\ rxAlive = TRUE
    /\ chan = <<>>
    /\ retry = [a \in ApiAccess |-> RetryIdle]
    /\ lst = [l \in Listeners |-> "none"]
    /\ tx = [l \in Listeners |-> 0]
    /\ served = [l \in Listeners |-> ApiAggregatorNew]
    /\ sends = [l \in Listeners |-> 0]
    /\ stream = <<>>
    /\ streamClosed = FALSE
    /\ sentLog = <<>>
    /\ applied = <<>>
    /\ nStops = 0
    /\ nStarts = 0
    /\ nStarted = 0
    /\ result = NoResult
    /\ taken = NoRequest
    /\ inner = NoResult
    /\ cors = Idle
    /\ errs = Idle
    /\ rq = Idle

managerVars == << config, servers, endpoints, pc, rxGen, rxAlive,
                  retry, applied, nStops, nStarts, nStarted, result, taken, inner >>
listenerVars == << lst, tx, served, sends >>
streamVars == << stream, streamClosed, sentLog >>

\* ------------------------------------------------------------ the producer
\* The external producer puts one more UpdateEndpoints value on the stream.
SendUpdate(u) ==
    /\ pc # "done"
    /\ ~streamClosed
    /\ Len(sentLog) < MaxUpdates
    /\ stream' = Append(stream, u)
    /\ sentLog' = Append(sentLog, u)
    /\ UNCHANGED << leafVars, managerVars, listenerVars, chan, streamClosed >>

\* The external producer closes the stream.
CloseStream ==
    /\ pc # "done"
    /\ ~streamClosed
    /\ streamClosed' = TRUE
    /\ UNCHANGED << leafVars, managerVars, listenerVars, chan, stream, sentLog >>

\* --------------------------------------------------------- the control loop
\* Generation being started or running: the number of updates applied, an
\* update being applied once the stop of the generation before it is done.
CurGen == Len(applied)

\* mpsc::channel(self.config.servers.len()) (manager.rs:258, 269): the
\* buffer size of a completion channel.
ChannelBuffer(cfg) == Cardinality(cfg.servers)

\* Variant of ReplaceChannel: the loop goes on with the channel it has.
ReplaceChannel_kept(id, buf) == [id |-> id, buf |-> buf]

\* server_finished_channel = mpsc::channel(..) (manager.rs:269): the tuple is
\* overwritten, so the loop holds a new, empty channel and the old receiver
\* is dropped with whatever it buffered.
ReplaceChannel(id, buf) == [id |-> id + 1, buf |-> <<>>]

\* Variant of StopServers: the handles are drained but no server is stopped.
StopServers_drainOnly(ls, handles) == [lst |-> ls, servers |-> {}]

\* The synchronous part of ApiManager::stop_servers (manager.rs:237-241)
\* with ServerHandle::stop (manager.rs:153-157): drain(..) empties
\* self.servers and every handle is sent a stop.  The caller then waits in
\* join_all until every such server has stopped.  A server that had already
\* finished is left as it is.
StopServers(ls, handles) ==
    [ lst |-> [l \in DOMAIN ls |->
                 IF l \in handles /\ ls[l] = "running" THEN "stopping" ELSE ls[l]],
      servers |-> {} ]

\* join_all of stop_servers is ready (manager.rs:240): every server that was
\* sent a stop has stopped.
StopsDone(ls) == \A l \in DOMAIN ls : ls[l] # "stopping"

\* Variant of WithRetriesNext: the range excludes its upper end.
WithRetriesNext_exclusive(attempt, attempts) ==
    IF attempt + 1 < attempts THEN "try" ELSE "err"

\* The head of the loop `for attempt in 1..=attempts` (manager.rs:130) after
\* `attempt` iterations: one more iteration, or the loop is left and the
\* error of manager.rs:141-145 is returned.
WithRetriesNext(attempt, attempts) ==
    IF attempt < attempts THEN "try" ELSE "err"

\* start_servers builds one with_retries future per configured server
\* (manager.rs:182-204).
NewRetries(cfg) ==
    [a \in ApiAccess |->
        IF a \in cfg.servers
        THEN [RetryIdle EXCEPT !.at = WithRetriesNext(0, cfg.server_restart_max_retries)]
        ELSE RetryIdle]

\* Variant of StreamNext: the newest update is taken and the older ones are
\* skipped.
StreamNext_coalesced(st) == [request |-> st[Len(st)], rest |-> <<>>]

\* The update the loop takes from the stream and what stays in the stream:
\* endpoints_rx.next() yields the oldest value (manager.rs:266).
StreamNext(st) == [request |-> Head(st), rest |-> Tail(st)]

\* endpoints_rx.next() yields Some(request) (manager.rs:266-271): the
\* completion channel is replaced and stop_servers is entered, where the
\* loop waits for the servers to stop.
TakeUpdate ==
    /\ pc = "wait"
    /\ stream # <<>>
    /\ LET nx == StreamNext(stream)
           ch == ReplaceChannel(rxGen, chan)
           st == StopServers(lst, servers)
       IN  /\ stream' = nx.rest
           /\ taken' = SomeRequest(nx.request)
           /\ rxGen' = ch.id
           /\ chan' = ch.buf
           /\ lst' = st.lst
           /\ servers' = st.servers
    /\ nStops' = nStops + 1
    /\ pc' = "stopping"
    /\ UNCHANGED << leafVars, config, endpoints, rxAlive, retry, tx, served, sends,
                    streamClosed, sentLog, applied, nStarts, nStarted, result, inner >>

\* stop_servers has returned (manager.rs:271): the update becomes the stored
\* endpoint set and start_servers is entered (manager.rs:272-273).
Restart ==
    /\ pc = "stopping"
    /\ StopsDone(lst)
    /\ endpoints' = taken.endpoints
    /\ applied' = Append(applied, taken.endpoints)
    /\ taken' = NoRequest
    /\ retry' = NewRetries(config)
    /\ nStarts' = nStarts + 1
    /\ pc' = "starting"
    /\ UNCHANGED << leafVars, config, servers, rxGen, rxAlive, chan, listenerVars,
                    streamVars, nStops, nStarted, result, inner >>

\* The aggregator start_servers gives to the servers of a start
\* (manager.rs:183-184): a clone of the static aggregator, extended with the
\* stored endpoints.
StartAggregator(cfg, eps) == AggregatorExtend(cfg.api_aggregator, eps)

\* One iteration of with_retries for access level a (manager.rs:131-138):
\* action() is start_server (manager.rs:282-306), whose bind succeeds or
\* fails as the operating system decides.  On success the future is done
\* and holds a bound, not yet running server; on failure it sleeps.
BindAttempt(a, ok) ==
    /\ pc = "starting"
    /\ retry[a].at = "try"
    /\ IF ok
       THEN /\ retry' = [retry EXCEPT ![a].at = "ok", ![a].attempt = @ + 1]
            /\ lst' = [lst EXCEPT ![<<CurGen, a>>] = "bound"]
            /\ served' = [served EXCEPT ![<<CurGen, a>>] = StartAggregator(config, endpoints)]
       ELSE /\ retry' = [retry EXCEPT ![a].at = "sleep", ![a].attempt = @ + 1,
                                      ![a].fails = @ + 1]
            /\ UNCHANGED << lst, served >>
    /\ UNCHANGED << leafVars, config, servers, endpoints, pc, rxGen, rxAlive,
                    chan, tx, sends, streamVars, applied, nStops, nStarts, nStarted, result,
                    taken, inner >>

\* sleep(timeout).await has elapsed (manager.rs:136); the loop goes on.
SleepDone(a) ==
    /\ pc = "starting"
    /\ retry[a].at = "sleep"
    /\ retry' = [retry EXCEPT
                    ![a].delays = @ + 1,
                    ![a].at = WithRetriesNext(retry[a].attempt,
                                              config.server_restart_max_retries)]
    /\ UNCHANGED << leafVars, config, servers, endpoints, pc, rxGen, rxAlive,
                    chan, listenerVars, streamVars, applied, nStops, nStarts, nStarted, result,
                    taken, inner >>

\* Variant of RunFinish: run goes on to return res without stop_servers.
RunFinish_noStop(r, ls, handles) ==
    [ res |-> r, lst |-> ls, servers |-> handles ]

\* run (manager.rs:247-248): run_inner has returned r and stop_servers is
\* entered, where run waits for the servers to stop.
RunFinish(r, ls, handles) ==
    LET st == StopServers(ls, handles)
    IN  [ res |-> r, lst |-> st.lst, servers |-> st.servers ]

\* Variant of DropStart: the servers already built stay alive.
DropStart_kept(ls) == ls

\* What try_join_all leaves of a failed start (manager.rs:205): the futures
\* and the servers already built are dropped, which closes their sockets.
DropStart(ls) ==
    [l \in DOMAIN ls |-> IF ls[l] = "bound" THEN "dropped" ELSE ls[l]]

\* try_join_all returns the error of a with_retries future (manager.rs:205);
\* `?` leaves start_servers and run_inner (manager.rs:273).  The handles
\* were drained by the restart, so run's stop_servers has nothing to wait
\* for and run returns the error (manager.rs:247-250).
StartFail(a) ==
    /\ pc = "starting"
    /\ retry[a].at = "err"
    /\ LET fin == RunFinish(BindError(CurGen, a), DropStart(lst), servers)
       IN  /\ inner' = fin.res
           /\ result' = fin.res
           /\ lst' = fin.lst
           /\ servers' = fin.servers
    /\ retry' = [b \in ApiAccess |-> RetryIdle]
    /\ rxAlive' = FALSE
    /\ pc' = "done"
    /\ UNCHANGED << leafVars, config, endpoints, rxGen, chan, tx, served, sends,
                    streamVars, applied, nStops, nStarts, nStarted, taken >>

\* try_join_all returns every server (manager.rs:205); each is spawned as a
\* task holding a clone of the sender of the current channel, and its handle
\* is stored (manager.rs:207-234).  The loop is back at its wait point.
StartOk ==
    /\ pc = "starting"
    /\ \A a \in config.servers : retry[a].at = "ok"
    /\ servers' = {<<CurGen, a>> : a \in config.servers}
    /\ lst' = [l \in Listeners |-> IF lst[l] = "bound" THEN "running" ELSE lst[l]]
    /\ tx' = [l \in Listeners |-> IF lst[l] = "bound" THEN rxGen ELSE tx[l]]
    /\ retry' = [b \in ApiAccess |-> RetryIdle]
    /\ nStarted' = nStarted + 1
    /\ pc' = "wait"
    /\ UNCHANGED << leafVars, config, endpoints, rxGen, rxAlive, chan, served,
                    sends, streamVars, applied, nStops, nStarts, result, taken, inner >>

\* The value run_inner returns for a message of the completion channel
\* (manager.rs:262-264).
FinishedResult(msg) ==
    IF msg.res = "Ok" THEN [kind |-> "Ok", who |-> msg.from]
    ELSE ListenerError(msg.from)

\* server_finished_channel.1.next() yields a message (manager.rs:262-264):
\* run_inner returns it, which drops the channel, and run enters
\* stop_servers (manager.rs:247-248).
RecvFinished ==
    /\ pc = "wait"
    /\ chan # <<>>
    /\ LET fin == RunFinish(FinishedResult(Head(chan)), lst, servers)
       IN  /\ inner' = fin.res
           /\ lst' = fin.lst
           /\ servers' = fin.servers
    /\ chan' = Tail(chan)
    /\ rxAlive' = FALSE
    /\ pc' = "finishing"
    /\ UNCHANGED << leafVars, config, endpoints, rxGen, retry, tx, served, sends, streamVars,
                    applied, nStops, nStarts, nStarted, result, taken >>

\* endpoints_rx.next() yields None (manager.rs:274-276): run_inner returns
\* Ok(()), which drops the channel, and run enters stop_servers
\* (manager.rs:247-248).
StreamEnd ==
    /\ pc = "wait"
    /\ stream = <<>>
    /\ streamClosed
    /\ LET fin == RunFinish(OkResult, lst, servers)
       IN  /\ inner' = fin.res
           /\ lst' = fin.lst
           /\ servers' = fin.servers
    /\ rxAlive' = FALSE
    /\ pc' = "finishing"
    /\ UNCHANGED << leafVars, config, endpoints, rxGen, chan, retry, tx, served, sends,
                    streamVars, applied, nStops, nStarts, nStarted, result, taken >>

\* stop_servers has returned (manager.rs:248): run returns what run_inner
\* returned (manager.rs:249-250).
RunReturn ==
    /\ pc = "finishing"
    /\ StopsDone(lst)
    /\ result' = inner
    /\ pc' = "done"
    /\ UNCHANGED << leafVars, config, servers, endpoints, rxGen, rxAlive, chan, retry,
                    listenerVars, streamVars, applied, nStops, nStarts, nStarted,
                    taken, inner >>

\* ------------------------------------------------------------ the listeners
\* A server that was sent a stop has stopped (manager.rs:153-157): its
\* future resolves to Ok(()) in its task and the stop is answered.
ListenerStopped(l) ==
    /\ lst[l] = "stopping"
    /\ lst' = [lst EXCEPT ![l] = "exitedOk"]
    /\ UNCHANGED << leafVars, managerVars, chan, tx, served, sends, streamVars >>

\* server.await resolves to Err(e) (manager.rs:216-218): the server failed
\* at run time.
ListenerFail(l) ==
    /\ lst[l] = "running"
    /\ lst' = [lst EXCEPT ![l] = "exitedErr"]
    /\ UNCHANGED << leafVars, managerVars, chan, tx, served, sends, streamVars >>

\* server.await resolves to Ok(()) without a stop by the manager
\* (manager.rs:219-225): the server handled an OS signal, which it does
\* unless disable_signals was set (manager.rs:301-303).
ListenerSignal(l) ==
    /\ lst[l] = "running"
    /\ ~config.disable_signals
    /\ lst' = [lst EXCEPT ![l] = "exitedOk"]
    /\ UNCHANGED << leafVars, managerVars, chan, tx, served, sends, streamVars >>

\* Variant of TaskSend: an error is sent where it is logged and again at the
\* end of the task.
TaskSend_errorTwice(l) ==
    /\ lst[l] \in {"exitedOk", "exitedErr"}
    /\ lst' = [lst EXCEPT ![l] = "sent"]
    /\ LET msg == [res |-> IF lst[l] = "exitedOk" THEN "Ok" ELSE "Err", from |-> l]
           n == IF lst[l] = "exitedErr" THEN 2 ELSE 1
       IN  /\ sends' = [sends EXCEPT ![l] = @ + n]
           /\ chan' = IF rxAlive /\ tx[l] = rxGen
                      THEN IF n = 2 THEN Append(Append(chan, msg), msg) ELSE Append(chan, msg)
                      ELSE chan
    /\ UNCHANGED << leafVars, managerVars, tx, served, streamVars >>

\* server_finished.send(res).await.ok() (manager.rs:227): the task sends the
\* outcome on its clone of the sender and ends.  The message is buffered if
\* the receiver of that channel still exists and is lost otherwise.
TaskSend(l) ==
    /\ lst[l] \in {"exitedOk", "exitedErr"}
    /\ lst' = [lst EXCEPT ![l] = "sent"]
    /\ sends' = [sends EXCEPT ![l] = @ + 1]
    /\ chan' = IF rxAlive /\ tx[l] = rxGen
               THEN Append(chan, [res |-> IF lst[l] = "exitedOk" THEN "Ok" ELSE "Err",
                                  from |-> l])
               ELSE chan
    /\ UNCHANGED << leafVars, managerVars, tx, served, streamVars >>

\* ------------------------------------------------------------ specification
Next ==
    \/ \E u \in UpdateValues : SendUpdate(u)
    \/ CloseStream
    \/ TakeUpdate
    \/ Restart
    \/ \E a \in ApiAccess, ok \in BOOLEAN : BindAttempt(a, ok)
    \/ \E a \in ApiAccess : SleepDone(a)
    \/ \E a \in ApiAccess : StartFail(a)
    \/ StartOk
    \/ RecvFinished
    \/ StreamEnd
    \/ RunReturn
    \/ \E l \in Listeners : ListenerStopped(l)
    \/ \E l \in Listeners : ListenerFail(l)
    \/ \E l \in Listeners : ListenerSignal(l)
    \/ \E l \in Listeners : TaskSend(l)

Spec == Init /\ [][Next]_vars

\* ------------------------------------------------------------------ claims
MaxRetries == config.server_restart_max_retries

\* C1: when a start fails because an access level exhausted its retries, run
\* has returned the bind error, the manager's listener set is empty and no
\* listener, including one bound for another access level in that start,
\* holds its socket or runs; a start that did not succeed has made run return
\* that error.
C1_StartAllOrNothing ==
    /\ result.kind = "BindErr" =>
          /\ pc = "done"
          /\ servers = {}
          /\ \A l \in Listeners : ~Bound(l)
    /\ (pc # "starting" /\ nStarted < nStarts) => result.kind = "BindErr"

\* C1 witness: a start failed after the bind of another access level of the
\* same start had succeeded.
C1_Witness ==
    /\ result.kind = "BindErr"
    /\ \E l \in Listeners : l[1] = CurGen /\ lst[l] = "dropped"

\* C2: the attempts of one access level are made one after another and stop
\* at the first success: a future that succeeded after K failures made K+1
\* attempts with K < max_retries, and a future that failed made exactly
\* max_retries attempts, all of them failures.
C2_AttemptCount ==
    \A a \in ApiAccess :
        /\ retry[a].attempt <= MaxRetries
        /\ retry[a].at = "try" => retry[a].attempt = retry[a].fails
        /\ retry[a].at = "ok" =>
              /\ retry[a].attempt = retry[a].fails + 1
              /\ retry[a].fails < MaxRetries
        /\ retry[a].at = "err" =>
              /\ retry[a].attempt = MaxRetries
              /\ retry[a].fails = MaxRetries

\* C2 witness: one access level succeeded after a failed attempt while the
\* other one failed max_retries >= 2 times.
C2_Witness ==
    \E a, b \in ApiAccess :
        /\ retry[a].at = "ok" /\ retry[a].fails >= 1
        /\ retry[b].at = "err" /\ retry[b].attempt >= 2

\* C3: at most one listener per access level holds its socket or runs, and
\* every such listener belongs to the current generation: the listeners of
\* the previous generations have been stopped before the first bind attempt
\* of the next one.
C3_OneListenerPerAccess ==
    /\ \A a \in ApiAccess :
          Cardinality({l \in Listeners : l[2] = a /\ Bound(l)}) <= 1
    /\ \A l \in Listeners : Bound(l) => l[1] = CurGen

\* C3 witness: a listener of the second generation is bound for an access
\* level whose first-generation listener had run and was stopped.
C3_Witness ==
    \E a \in ApiAccess :
        /\ CurGen = 2
        /\ Bound(<<2, a>>)
        /\ lst[<<1, a>>] \in {"exitedOk", "sent"}

\* C4: every message the loop can receive from its completion channel was
\* sent by a listener of the current generation, and a result run took from
\* the channel is the outcome of a listener of the last generation started.
C4_GenerationIsolation ==
    /\ \A i \in 1..Len(chan) : chan[i].from[1] = CurGen
    /\ result.who # NoListener => result.who[1] = CurGen

\* C4 witness: the new generation is running and the loop is at its wait
\* point while a listener stopped by the restart has its outcome still to
\* send.
C4_Witness ==
    /\ pc = "wait"
    /\ servers # {}
    /\ \E l \in Listeners : l[1] < CurGen /\ lst[l] = "exitedOk"

\* A listener of the current generation has ended with an error that the
\* loop has not received yet.
ListenerFailurePending ==
    \/ \E l \in servers : lst[l] = "exitedErr"
    \/ \E i \in 1..Len(chan) : chan[i].res = "Err"

\* C5: once a listener of the current generation has ended with an error
\* while the loop is at its wait point, the next step of the loop sends a
\* stop to the listeners, starts no new listener and makes run go on to
\* return a listener error.
C5_ListenerErrorIsFatal ==
    [][ (pc = "wait" /\ ListenerFailurePending /\ pc' # "wait") =>
            /\ pc' = "finishing"
            /\ inner'.kind = "ListenerErr"
            /\ nStarts' = nStarts
            /\ \A l \in Listeners : lst'[l] \notin {"bound", "running"} ]_vars

\* C6: when the stream is closed and empty and no listener failure is
\* pending, the step the loop takes from its wait point leaves run_inner
\* with success, empties the listener set and sends a stop to every
\* listener; run returns that success, and when it does the listener set is
\* empty and no listener holds its socket.
C6_StreamCloseShutsDown ==
    [][ /\ (pc = "wait" /\ stream = <<>> /\ streamClosed /\ ~ListenerFailurePending
                /\ pc' # "wait") =>
               /\ pc' = "finishing"
               /\ inner'.kind = "Ok"
               /\ servers' = {}
               /\ \A l \in Listeners : lst'[l] \notin {"bound", "running"}
        /\ (pc = "finishing" /\ pc' # "finishing") =>
               /\ pc' = "done"
               /\ result' = inner
               /\ servers' = {}
               /\ \A l \in Listeners : lst'[l] \notin {"bound", "running", "stopping"}
      ]_vars

\* C6 witness: with OS signals disabled, run returned success on the closed
\* stream and a listener of the current generation was stopped by it.
C6_Witness ==
    /\ config.disable_signals
    /\ pc = "done"
    /\ result = OkResult
    /\ \E l \in Listeners : l[1] = CurGen /\ lst[l] = "exitedOk"

\* C7: the updates applied, the update whose stop is in progress and the
\* updates still in the stream are the updates sent, in order; every update
\* taken has caused one stop and, once the stop has completed, one start;
\* at most one stop or start is in progress, and at the wait point every
\* update taken has a completed stop and start.
C7_SerializedUpdates ==
    LET held == IF taken.some THEN << taken.endpoints >> ELSE <<>>
    IN  /\ sentLog = applied \o held \o stream
        /\ nStops = Len(applied) + Len(held)
        /\ nStarts = Len(applied)
        /\ taken.some <=> pc = "stopping"
        /\ pc = "starting" => nStarts = nStarted + 1
        /\ pc = "wait" => nStarted = Len(applied)
        /\ \A l \in Listeners : lst[l] = "bound" => pc = "starting"
        /\ \A l \in Listeners : lst[l] = "stopping" => pc \in {"stopping", "finishing"}

\* C7 witness: two different updates have been taken and both starts have
\* completed.
C7_Witness ==
    /\ pc = "wait"
    /\ nStarted = 2
    /\ applied[1] # applied[2]

\* The builders an update gives for a service name.
UpdateBuilders(u, n) == { u[i][2] : i \in { j \in 1..Len(u) : u[j][1] = n } }

\* C8: the stored endpoint set is the last update taken; every listener was
\* built with an aggregator that maps a name of its generation's update to a
\* builder of that update and any other name to what the static aggregator
\* holds, whatever earlier updates held; the static aggregator is the one
\* the configuration was built with.
C8_EndpointsReplaced ==
    /\ endpoints = IF CurGen = 0 THEN <<>> ELSE applied[CurGen]
    /\ config.api_aggregator \in StaticAggregators
    /\ \A l \in Listeners : lst[l] # "none" =>
          \A n \in ServiceNames :
              IF UpdateBuilders(applied[l[1]], n) # {}
              THEN served[l][n] \in UpdateBuilders(applied[l[1]], n)
              ELSE served[l][n] = config.api_aggregator[n]

\* C8 witness: a listener of the second generation serves an update that
\* replaces a static service, after a first update that had added another
\* service, which is gone.
C8_Witness ==
    \E l \in Listeners :
        /\ l[1] = 2
        /\ lst[l] = "running"
        /\ config.api_aggregator["a"] = "b1"
        /\ served[l]["a"] = "b2"
        /\ UpdateBuilders(applied[1], "b") # {}
        /\ served[l]["b"] = Absent

\* C9: a listener's task sends at most once, and exactly once when it has
\* ended; its sender belongs to the channel of its own generation; the
\* channel the loop holds has at most one message per listener of the current
\* generation, so never more messages than its buffer, which is the number of
\* configured access levels.
C9_OneOutcomePerListener ==
    /\ \A l \in Listeners :
          /\ sends[l] <= 1
          /\ (lst[l] = "sent") <=> (sends[l] = 1)
          /\ lst[l] \in {"running", "exitedOk", "exitedErr", "sent"} => tx[l] = l[1]
    /\ \A i, j \in 1..Len(chan) : chan[i].from = chan[j].from => i = j
    /\ \A i \in 1..Len(chan) : tx[chan[i].from] = rxGen
    /\ Len(chan) <= ChannelBuffer(config)

\* C9 witness: both listeners of a generation have ended and the channel
\* holds the outcome of each.
C9_Witness ==
    /\ Len(chan) = 2
    /\ ChannelBuffer(config) = 2
    /\ \E i \in 1..2 : chan[i].res = "Err"

\* C10: max_retries is at least 1 in every configuration, and an access level
\* fails its start only after at least one bind attempt.
C10_AtLeastOneAttempt ==
    /\ MaxRetries >= 1
    /\ \A a \in ApiAccess : retry[a].at = "err" => retry[a].attempt >= 1

\* ================================================================== CORS
\* AllowOrigin (cors.rs:5-10).  A string is a sequence of characters.
CorsChars == {"a", "b", ",", " ", "*"}
Texts == UNION { [1..n -> CorsChars] : n \in 0..MaxTextLen }

AnyOrigin == [variant |-> "Any", hosts |-> <<>>]
Whitelist(hosts) == [variant |-> "Whitelist", hosts |-> hosts]

\* Result<AllowOrigin, _>.
OriginOk(v) == [ok |-> TRUE, value |-> v]
OriginErr == [ok |-> FALSE, value |-> [variant |-> "none", hosts |-> <<>>]]

\* char::is_whitespace, as used by str::trim.
IsSpace(c) == c = " "

RECURSIVE TrimStart(_)
TrimStart(s) == IF s # <<>> /\ IsSpace(Head(s)) THEN TrimStart(Tail(s)) ELSE s

RECURSIVE TrimEnd(_)
TrimEnd(s) ==
    IF s # <<>> /\ IsSpace(s[Len(s)]) THEN TrimEnd(SubSeq(s, 1, Len(s) - 1)) ELSE s

\* Variant of Trim: only leading whitespace is removed.
Trim_startOnly(s) == TrimStart(s)

\* str::trim (cors.rs:78).
Trim(s) == TrimEnd(TrimStart(s))

\* str::split(',') (cors.rs:77): the pieces between the separators; a text
\* without separator is one piece, also when it is empty.
RECURSIVE Split(_, _)
Split(s, sep) ==
    IF \E i \in 1..Len(s) : s[i] = sep
    THEN LET i == CHOOSE k \in 1..Len(s) :
                      s[k] = sep /\ \A j \in 1..(k - 1) : s[j] # sep
         IN  << SubSeq(s, 1, i - 1) >> \o Split(SubSeq(s, i + 1, Len(s)), sep)
    ELSE << s >>

\* .map(|s| s.trim().to_string()) (cors.rs:78).
TrimAll(pieces) == [i \in 1..Len(pieces) |-> Trim(pieces[i])]

NonEmpty(x) == x # <<>>

\* impl FromStr for AllowOrigin (cors.rs:68-87).
FromStr(s) ==
    IF s = << "*" >> THEN OriginOk(AnyOrigin)
    ELSE LET v == SelectSeq(TrimAll(Split(s, ",")), NonEmpty)
         IN  IF v = <<>> THEN OriginErr ELSE OriginOk(Whitelist(v))

\* Values of the serde data model the (de)serializer exchanges: a string, a
\* sequence of strings, or a value of another type (number, map, ...).
WireStr(t) == [shape |-> "str", str |-> t, seq |-> <<>>]
WireSeq(q) == [shape |-> "seq", str |-> <<>>, seq |-> q]
WireOther == [shape |-> "other", str |-> <<>>, seq |-> <<>>]

\* impl Serialize for AllowOrigin (cors.rs:12-28).
Serialize(v) ==
    IF v.variant = "Any" THEN WireStr(<< "*" >>)
    ELSE IF Len(v.hosts) = 1 THEN WireStr(v.hosts[1])
    ELSE WireSeq(v.hosts)

\* impl Deserialize for AllowOrigin (cors.rs:30-66): deserialize_any calls
\* visit_str for a string and visit_seq for a sequence; the visitor has no
\* method for another type, which is an error.
Deserialize(w) ==
    IF w.shape = "str"
    THEN IF w.str = << "*" >> THEN OriginOk(AnyOrigin) ELSE OriginOk(Whitelist(<< w.str >>))
    ELSE IF w.shape = "seq" THEN OriginOk(Whitelist(w.seq))
    ELSE OriginErr

\* The structured inputs read: any bare string, and lists of short strings.
WireStrings == { t \in Texts : Len(t) <= 1 }
Wires ==
    { WireStr(t) : t \in Texts }
    \cup { WireSeq(q) : q \in UNION { [1..n -> WireStrings] : n \in 0..MaxHosts } }
    \cup { WireOther }

\* "a,b".parse::<AllowOrigin>(), the first conversion made.
CorsFromStr(s) ==
    /\ cors.op = "idle"
    /\ cors' = [op |-> "from_str", in |-> s, out |-> FromStr(s)]
    /\ UNCHANGED << managerVars, listenerVars, streamVars, chan, errs, rq >>

\* AllowOrigin::deserialize on a structured configuration value, the first
\* conversion made.
CorsDeserialize(w) ==
    /\ cors.op = "idle"
    /\ cors' = [op |-> "deserialize", in |-> w, out |-> Deserialize(w)]
    /\ UNCHANGED << managerVars, listenerVars, streamVars, chan, errs, rq >>

\* AllowOrigin::serialize on the value the last conversion returned.
CorsSerialize ==
    /\ cors.op \in {"from_str", "deserialize"}
    /\ cors.out.ok
    /\ cors' = [op |-> "serialize", in |-> cors.out.value, out |-> Serialize(cors.out.value)]
    /\ UNCHANGED << managerVars, listenerVars, streamVars, chan, errs, rq >>

\* AllowOrigin::deserialize on what serialize produced from value cors.in.
CorsDeserializeBack ==
    /\ cors.op = "serialize"
    /\ cors' = [op |-> "round_trip", in |-> cors.in, out |-> Deserialize(cors.out)]
    /\ UNCHANGED << managerVars, listenerVars, streamVars, chan, errs, rq >>

\* A process that only converts CORS settings: the manager stays as built.
InitCors ==
    /\ Init
    /\ config = ConfigWithRetries(ConfigNew({"Public"}, AggregatorInsert(ApiAggregatorNew, "a", "b1")),
                                  DefaultRetryTimeout, 1)

NextCors ==
    \/ \E s \in Texts : CorsFromStr(s)
    \/ \E w \in Wires : CorsDeserialize(w)
    \/ CorsSerialize
    \/ CorsDeserializeBack

SpecCors == InitCors /\ [][NextCors]_vars

RECURSIVE Concat(_)
Concat(q) == IF q = <<>> THEN <<>> ELSE Head(q) \o Concat(Tail(q))

NotSpace(c) == ~IsSpace(c)
NotSpaceOrComma(c) == c \notin {" ", ","}
IsSubstring(h, s) == \E i \in 1..(Len(s) + 1), j \in 0..Len(s) : h = SubSeq(s, i, j)

\* C11: from_str gives Any for "*"; for any other text it fails exactly when
\* the text holds nothing but commas and whitespace, and otherwise gives a
\* whitelist whose hosts are non-empty, trimmed, comma-free pieces of the
\* text, in the order of the text and holding all its other characters.
C11_FromStr ==
    cors.op = "from_str" =>
        LET s == cors.in
            r == cors.out
            hs == r.value.hosts
        IN  IF s = << "*" >> THEN r = OriginOk(AnyOrigin)
            ELSE /\ ~r.ok <=> (\A i \in 1..Len(s) : s[i] \in {" ", ","})
                 /\ r.ok =>
                      /\ r.value.variant = "Whitelist"
                      /\ hs # <<>>
                      /\ \A i \in 1..Len(hs) :
                            /\ hs[i] # <<>>
                            /\ \A k \in 1..Len(hs[i]) : hs[i][k] # ","
                            /\ ~IsSpace(hs[i][1])
                            /\ ~IsSpace(hs[i][Len(hs[i])])
                            /\ IsSubstring(hs[i], s)
                      /\ Concat([i \in 1..Len(hs) |-> SelectSeq(hs[i], NotSpace)])
                            = SelectSeq(s, NotSpaceOrComma)
                      /\ Len(hs) <= 1 + Len(SelectSeq(s, LAMBDA c : c = ","))

\* C11 witness: "a, b" was parsed into the whitelist of a and b.
C11_Witness ==
    /\ cors.op = "from_str"
    /\ cors.in = << "a", ",", " ", "b" >>
    /\ cors.out = OriginOk(Whitelist(<< << "a" >>, << "b" >> >>))

\* C12: Any serializes to the string "*", a one-host whitelist to a bare
\* string and any other whitelist to a list; deserializing what serialize
\* produced from a value gives that value back; a bare string and a list are
\* both accepted.
C12_StructuredRoundTrip ==
    /\ cors.op = "serialize" =>
          /\ cors.in.variant = "Any" => cors.out = WireStr(<< "*" >>)
          /\ (cors.in.variant = "Whitelist" /\ Len(cors.in.hosts) = 1)
                => cors.out = WireStr(cors.in.hosts[1])
          /\ (cors.in.variant = "Whitelist" /\ Len(cors.in.hosts) # 1)
                => cors.out = WireSeq(cors.in.hosts)
    /\ cors.op = "deserialize" => (cors.in.shape \in {"str", "seq"} => cors.out.ok)
    /\ cors.op = "round_trip" => cors.out = OriginOk(cors.in)

\* C13: no conversion returns a whitelist without hosts or with an empty
\* host string.
C13_NoEmptyWhitelist ==
    (cors.op \in {"from_str", "deserialize", "round_trip"} /\ cors.out.ok
        /\ cors.out.value.variant = "Whitelist") =>
        /\ cors.out.value.hosts # <<>>
        /\ \A i \in 1..Len(cors.out.value.hosts) : cors.out.value.hosts[i] # <<>>

\* =========================================================== error model
\* Strings an Error body holds; "" is the empty string.
BodyStrings == {"", "x"}

\* Option<u8> (error.rs:39).
NoCode == [some |-> FALSE, v |-> 0]
SomeCode(n) == [some |-> TRUE, v |-> n]
ErrorCodes == {NoCode, SomeCode(0), SomeCode(1), SomeCode(255)}

\* ErrorBody::default (error.rs:27-40).
ErrorBodyDefault ==
    [docs_uri |-> "", title |-> "", detail |-> "", source |-> "", error_code |-> NoCode]

ErrorBodies ==
    [docs_uri : BodyStrings, title : BodyStrings, detail : BodyStrings,
     source : BodyStrings, error_code : ErrorCodes]

\* Error::new (error.rs:49-55); headers are a list of (name, value), a value
\* being a list of pieces of text.
ErrorNew(http_code) == [http_code |-> http_code, body |-> ErrorBodyDefault, headers |-> <<>>]

\* Error::title, Error::detail (error.rs:78-86).
WithTitle(e, t) == [e EXCEPT !.body.title = t]
WithDetail(e, d) == [e EXCEPT !.body.detail = d]

\* The location header of From<MovedPermanentlyError> (error.rs:145-153).
LocationHeader == << "location", << "/new" >> >>

\* Status codes of the constructors: bad_request, forbidden, not_found,
\* internal (error.rs:57-71) and the redirect (error.rs:152).
StatusCodes == {400, 403, 404, 500, 301}

\* Every Error the constructors and builder methods produce (error.rs:49-102).
Errors ==
    { [http_code |-> c, body |-> b, headers |-> h] :
        c \in StatusCodes, b \in ErrorBodies,
        h \in { <<>>, << LocationHeader >> } }

\* Tokens of a JSON text: the braces of an object and its members.
JsonOpen == [t |-> "{", key |-> "", str |-> "", num |-> 0]
JsonClose == [t |-> "}", key |-> "", str |-> "", num |-> 0]
JsonStr(k, v) == [t |-> "string", key |-> k, str |-> v, num |-> 0]
JsonNum(k, n) == [t |-> "number", key |-> k, str |-> "", num |-> n]

\* skip_serializing_if = "String::is_empty" (error.rs:30-37).
StrMember(k, v) == IF v = "" THEN <<>> ELSE << JsonStr(k, v) >>

\* Variant of CodeMember: a code of 0 is skipped like an absent one.
CodeMember_zeroSkipped(c) ==
    IF ~c.some \/ c.v = 0 THEN <<>> ELSE << JsonNum("error_code", c.v) >>

\* skip_serializing_if = "Option::is_none" (error.rs:38-39).
CodeMember(c) == IF ~c.some THEN <<>> ELSE << JsonNum("error_code", c.v) >>

\* derive(Serialize) for ErrorBody (error.rs:27-40): the members written,
\* in field order; docs_uri is renamed "type".
BodyMembers(b) ==
    StrMember("type", b.docs_uri) \o StrMember("title", b.title)
        \o StrMember("detail", b.detail) \o StrMember("source", b.source)
        \o CodeMember(b.error_code)

\* serde_json::to_string(&self.body) (end/actix.rs:104).
ToJsonString(b) == << JsonOpen >> \o BodyMembers(b) \o << JsonClose >>

\* The body error_response sends (end/actix.rs:100-105): zero-length when
\* the body serializes to the empty object, its JSON text otherwise.
ResponseBody(b) == IF BodyMembers(b) = <<>> THEN <<>> ELSE ToJsonString(b)

ContentTypeProblem == << "content-type", << "application/problem+json" >> >>

\* impl ResponseError for ApiError, error_response (end/actix.rs:98-117).
ErrorResponse(e) ==
    [ status |-> e.http_code,
      headers |-> << ContentTypeProblem >> \o e.headers,
      body |-> ResponseBody(e.body) ]

\* The string member k of a JSON object, or the default of the field.
JsonStrField(text, k) ==
    IF \E i \in 1..Len(text) : text[i].t = "string" /\ text[i].key = k
    THEN text[CHOOSE i \in 1..Len(text) : text[i].t = "string" /\ text[i].key = k].str
    ELSE ""

JsonCodeField(text) ==
    IF \E i \in 1..Len(text) : text[i].t = "number" /\ text[i].key = "error_code"
    THEN SomeCode(text[CHOOSE i \in 1..Len(text) :
                           text[i].t = "number" /\ text[i].key = "error_code"].num)
    ELSE NoCode

\* The names of the string members of an ErrorBody in JSON (error.rs:29-37).
StringKeys == {"type", "title", "detail", "source"}

\* What the derived Deserialize accepts as a member (error.rs:27-40): a
\* string for a string field, a number that is a u8 for error_code; a
\* member of another name is ignored.
MemberOk(m) ==
    /\ m.t \in {"string", "number"}
    /\ m.key \in StringKeys => m.t = "string"
    /\ m.key = "error_code" => m.t = "number" /\ m.num \in 0..255

\* serde_json::from_str::<ErrorBody> (error.rs:109): the text must be one
\* object and nothing else, every member of a field must have the type of
\* the field and no field may occur twice; a member that is missing takes
\* the default of its field (serde(default), error.rs:30-39).
FromJsonString(text) ==
    LET n == Len(text)
        members == 2..(n - 1)
    IN  IF /\ n >= 2 /\ text[1] = JsonOpen /\ text[n] = JsonClose
           /\ \A i \in members : MemberOk(text[i])
           /\ \A i, j \in members :
                  (i # j /\ text[i].key = text[j].key) =>
                      text[i].key \notin StringKeys \cup {"error_code"}
        THEN [ ok |-> TRUE,
               body |-> [ docs_uri |-> JsonStrField(text, "type"),
                          title |-> JsonStrField(text, "title"),
                          detail |-> JsonStrField(text, "detail"),
                          source |-> JsonStrField(text, "source"),
                          error_code |-> JsonCodeField(text) ] ]
        ELSE [ ok |-> FALSE, body |-> ErrorBodyDefault ]

\* Variant of ParseBody: the text is always given to the JSON parser.
ParseBody_alwaysJson(text) == FromJsonString(text)

\* The body Error::parse builds (error.rs:108-112).
ParseBody(text) ==
    IF text # <<>> THEN FromJsonString(text)
    ELSE [ ok |-> TRUE, body |-> ErrorBodyDefault ]

\* Error::parse (error.rs:104-120).
ErrorParse(http_code, text) ==
    LET b == ParseBody(text)
    IN  [ ok |-> b.ok,
          value |-> [http_code |-> http_code, body |-> b.body, headers |-> <<>>] ]

\* An Error is turned into its wire response.
ErrorRespond(e) ==
    /\ errs.op = "idle"
    /\ errs' = [op |-> "error_response", in |-> e, out |-> ErrorResponse(e)]
    /\ UNCHANGED << managerVars, listenerVars, streamVars, chan, cors, rq >>

\* A client parses the status and body of that response.
ErrorParseBack ==
    /\ errs.op = "error_response"
    /\ errs' = [op |-> "parse", in |-> errs.in, wire |-> errs.out,
                out |-> ErrorParse(errs.out.status, errs.out.body)]
    /\ UNCHANGED << managerVars, listenerVars, streamVars, chan, cors, rq >>

\* Bodies of responses that error_response did not write.
ForeignTexts ==
    { << JsonOpen, JsonClose >>,
      << JsonOpen, JsonNum("title", 5), JsonClose >>,
      << JsonOpen, JsonNum("error_code", 256), JsonClose >>,
      << JsonOpen, JsonNum("error_code", -1), JsonClose >>,
      << JsonOpen, JsonStr("error_code", "x"), JsonClose >>,
      << JsonOpen, JsonStr("title", "x"), JsonStr("title", "x"), JsonClose >>,
      << JsonOpen, JsonStr("other", "x"), JsonNum("other", 5), JsonClose >>,
      << JsonOpen, JsonOpen, JsonClose, JsonClose >>,
      << JsonOpen, JsonClose, JsonOpen, JsonClose >>,
      << JsonStr("title", "x") >> }

\* A client parses the status and body of a response of another origin.
ErrorParseForeign(http_code, text) ==
    /\ errs.op = "idle"
    /\ errs' = [op |-> "parse_foreign", in |-> text, out |-> ErrorParse(http_code, text)]
    /\ UNCHANGED << managerVars, listenerVars, streamVars, chan, cors, rq >>

\* A process that only converts errors: the manager stays as built.
InitError == InitCors

NextError ==
    \/ \E e \in Errors : ErrorRespond(e)
    \/ ErrorParseBack
    \/ \E c \in StatusCodes, text \in ForeignTexts : ErrorParseForeign(c, text)

SpecError == InitError /\ [][NextError]_vars

\* The fields of an error body that are not empty, as (key, value) members.
PresentFields(b) ==
    { JsonStr(f[1], f[2]) :
        f \in { g \in { << "type", b.docs_uri >>, << "title", b.title >>,
                        << "detail", b.detail >>, << "source", b.source >> } :
                g[2] # "" } }
    \cup (IF b.error_code.some THEN { JsonNum("error_code", b.error_code.v) } ELSE {})

\* C14: the response of an Error has its status and, after the content
\* type, its extra headers; the body is zero-length exactly when the four
\* strings are empty and error_code is absent, and otherwise is one JSON
\* object whose members are exactly the non-empty fields (a code of 0 too).
C14_ErrorWireResponse ==
    errs.op = "error_response" =>
        LET e == errs.in
            r == errs.out
            allEmpty == /\ e.body.docs_uri = "" /\ e.body.title = ""
                        /\ e.body.detail = "" /\ e.body.source = ""
                        /\ ~e.body.error_code.some
        IN  /\ r.status = e.http_code
            /\ SubSeq(r.headers, 2, Len(r.headers)) = e.headers
            /\ r.body = <<>> <=> allEmpty
            /\ ~allEmpty =>
                  /\ r.body[1] = JsonOpen
                  /\ r.body[Len(r.body)] = JsonClose
                  /\ { r.body[i] : i \in 2..(Len(r.body) - 1) } = PresentFields(e.body)
                  /\ Len(r.body) = 2 + Cardinality(PresentFields(e.body))

\* C14 witness: an Error whose only body field is error_code 0, with an
\* extra header, was turned into a response.
C14_Witness ==
    /\ errs.op = "error_response"
    /\ errs.in.body = [ErrorBodyDefault EXCEPT !.error_code = SomeCode(0)]
    /\ errs.in.headers # <<>>
    /\ errs.out.body # <<>>

\* C15: parsing the status and body of the response of an Error succeeds
\* and gives an Error with the same status and the same five body fields.
C15_ErrorRoundTrip ==
    errs.op = "parse" =>
        /\ errs.out.ok
        /\ errs.out.value.http_code = errs.in.http_code
        /\ errs.out.value.body = errs.in.body

\* C15 witness: an Error with an empty body went through a zero-length wire
\* body and was parsed back.
C15_Witness ==
    /\ errs.op = "parse"
    /\ errs.wire.body = <<>>
    /\ errs.out.ok

\* ======================================================= request dispatch
\* EndpointMutability and its HTTP method (end/actix.rs:164-171).
Mutabilities == {"Immutable", "Mutable"}
Method(mutability) == IF mutability = "Immutable" THEN "GET" ELSE "POST"

\* A point in time by its calendar fields (time::OffsetDateTime).
Dates ==
    { [weekday |-> 4, day |-> 31, month |-> 12, year |-> 2026,
       hour |-> 23, minute |-> 59, second |-> 7],
      [weekday |-> 1, day |-> 5, month |-> 1, year |-> 2032,
       hour |-> 0, minute |-> 0, second |-> 0] }

NoDate == [some |-> FALSE, date |-> [weekday |-> 1, day |-> 1, month |-> 1, year |-> 0,
                                     hour |-> 0, minute |-> 0, second |-> 0]]
SomeDate(d) == [some |-> TRUE, date |-> d]
NoDescription == [some |-> FALSE, text |-> ""]
SomeDescription(t) == [some |-> TRUE, text |-> t]

\* Actuality (withs.rs:17-24).
Actual == [kind |-> "Actual", discontinued_on |-> NoDate, description |-> NoDescription]
Deprecated(on, description) ==
    [kind |-> "Deprecated", discontinued_on |-> on, description |-> description]
Actualities ==
    {Actual} \cup
    { Deprecated(on, ds) :
        on \in {NoDate} \cup { SomeDate(d) : d \in Dates },
        ds \in {NoDescription, SomeDescription("use v2"), SomeDescription("")} }

\* Decimal digits of a number, padded with zeros to a width.
Digit(n) ==
    << "0", "1", "2", "3", "4", "5", "6", "7", "8", "9" >>[(n % 10) + 1]
Pad2(n) == << Digit(n \div 10), Digit(n) >>
Pad4(n) == Pad2(n \div 100) \o Pad2(n % 100)
WeekdayShort(w) == << "Mon", "Tue", "Wed", "Thu", "Fri", "Sat", "Sun" >>[w]
MonthShort(m) ==
    << "Jan", "Feb", "Mar", "Apr", "May", "Jun",
       "Jul", "Aug", "Sep", "Oct", "Nov", "Dec" >>[m]

\* date.format("[weekday repr:short], [day] [month repr:short] [year]
\* [hour]:[minute]:[second] GMT") (end/actix.rs:129-136).
FormatDate(d) ==
    << WeekdayShort(d.weekday), ", " >> \o Pad2(d.day) \o << " ", MonthShort(d.month), " " >>
        \o Pad4(d.year) \o << " " >> \o Pad2(d.hour) \o << ":" >> \o Pad2(d.minute)
        \o << ":" >> \o Pad2(d.second) \o << " GMT" >>

MaintainedUntil == "The old API is maintained until "
NoSpecificDate == "Currently there is no specific date for disabling this endpoint."
DeprecatedPrefix ==
    "Deprecated API: This endpoint is deprecated, see the service documentation to find an alternative. "
AdditionalInformation == " Additional information: "

\* expiration_note (end/actix.rs:128-140).
ExpirationNote(on) ==
    IF on.some THEN << MaintainedUntil >> \o FormatDate(on.date) \o << "." >>
    ELSE << NoSpecificDate >>

\* Variant of WarningText: the description is never appended.
WarningText_noDescription(actuality) ==
    << DeprecatedPrefix >> \o ExpirationNote(actuality.discontinued_on)

\* warning_text (end/actix.rs:142-151).
WarningText(actuality) ==
    LET text == << DeprecatedPrefix >> \o ExpirationNote(actuality.discontinued_on)
    IN  IF actuality.description.some
        THEN text \o << AdditionalInformation, actuality.description.text, "." >>
        ELSE text

\* create_warning_header (end/actix.rs:160-162).
CreateWarningHeader(text) == << "299 - \"" >> \o text \o << "\"" >>

\* The JSON text of the value a handler returned.
JsonValue(v) == [t |-> "value", key |-> "", str |-> v, num |-> 0]

ContentTypeJson == << "content-type", << "application/json" >> >>

\* json_response (end/actix.rs:119-158).
JsonResponse(actuality, json_value) ==
    [ status |-> 200,
      headers |->
          (IF actuality.kind = "Deprecated"
           THEN << << "warning", CreateWarningHeader(WarningText(actuality)) >> >>
           ELSE <<>>) \o << ContentTypeJson >>,
      body |-> << JsonValue(json_value) >> ]

\* Error::bad_request, Error::not_found (error.rs:57-71).
BadRequest == ErrorNew(400)
NotFound == ErrorNew(404)

\* The paths of a request: those of registered endpoints are chosen with
\* the endpoint; this one has no route.
UnknownPath == "/api/none"

\* What the parsers of actix-web make of the query string and of the body
\* of a request: a value, or an error with its message.
Parsed(v) == [ok |-> TRUE, value |-> v, msg |-> ""]
ParseFailed(m) == [ok |-> FALSE, value |-> "", msg |-> m]
QueryParts == {Parsed("q"), ParseFailed("Query deserialize error: missing field id")}
BodyParts == {Parsed("j"), ParseFailed("Json deserialize error: EOF while parsing a value")}
\* The Origin header of a request as the Cors middleware judges it against
\* the allowed origins (manager.rs:49-53, end/actix.rs:233-254): no header,
\* an allowed origin, or a refused one.
Origins == {"none", "allowed", "refused"}
Requests == [query : QueryParts, payload : BodyParts, origin : Origins]

\* Variant of ExtractQuery: every endpoint reads the query string.
ExtractQuery_alwaysQuery(request, mutability) ==
    IF request.query.ok
    THEN [ok |-> TRUE, source |-> "query", value |-> request.query.value, err |-> BadRequest]
    ELSE [ok |-> FALSE, source |-> "query", value |-> "",
          err |-> WithDetail(WithTitle(BadRequest, "Query parse error"), request.query.msg)]

\* extract_query (end/actix.rs:173-200).
ExtractQuery(request, mutability) ==
    IF mutability = "Immutable"
    THEN IF request.query.ok
         THEN [ok |-> TRUE, source |-> "query", value |-> request.query.value, err |-> BadRequest]
         ELSE [ok |-> FALSE, source |-> "query", value |-> "",
               err |-> WithDetail(WithTitle(BadRequest, "Query parse error"),
                                  request.query.msg)]
    ELSE IF request.payload.ok
         THEN [ok |-> TRUE, source |-> "json", value |-> request.payload.value, err |-> BadRequest]
         ELSE [ok |-> FALSE, source |-> "json", value |-> "",
               err |-> WithDetail(WithTitle(BadRequest, "JSON body parse error"),
                                  request.payload.msg)]

\* What a handler returns: an item, or an Error built by the constructors
\* and builder methods of error.rs.
HandlerOk(v) == [ok |-> TRUE, value |-> v, err |-> BadRequest]
HandlerErr(e) == [ok |-> FALSE, value |-> "", err |-> e]
HandlerErrors ==
    { ErrorNew(c) : c \in {400, 403, 404, 500} }
    \cup { WithTitle(ErrorNew(c), "x") : c \in {400, 404} }
    \cup { WithDetail(NotFound, "no such item") }
    \cup { [ErrorNew(301) EXCEPT !.headers = << LocationHeader >>] }
HandlerResults == {HandlerOk("item")} \cup { HandlerErr(e) : e \in HandlerErrors }
NoHandlerResult == [ok |-> FALSE, value |-> "none", err |-> BadRequest]
NoExtraction == [ok |-> FALSE, source |-> "none", value |-> "", err |-> BadRequest]

\* The response of a request no route matches: actix-web answers 404 with
\* no body.
DefaultNotFound == [status |-> 404, headers |-> <<>>, body |-> <<>>]
NoResponse == [status |-> 0, headers |-> <<>>, body |-> <<>>]

\* format!("API endpoint `{}` doesn't exist", path) (end/actix.rs:289-292);
\* the backquotes of the text are written as quotes here.
DoesNotExist(path) ==
    IF path = UnknownPath THEN "API endpoint '/api/none' doesn't exist"
    ELSE "API endpoint '/api/a/ep' doesn't exist"

\* error_handlers with default_api_error (end/actix.rs:263-297): a 404 or
\* 400 response whose body is empty is replaced, whoever produced it.
ErrorHandlers(res, path) ==
    IF res.status = 404 /\ res.body = <<>>
    THEN ErrorResponse(WithDetail(WithTitle(NotFound, "Method not found"), DoesNotExist(path)))
    ELSE IF res.status = 400 /\ res.body = <<>>
    THEN ErrorResponse(WithTitle(BadRequest, "Bad request"))
    ELSE res

EndpointPath == "/api/a/ep"
NoEndpoint == [mutability |-> "none", actuality |-> Actual]

\* The answer of the Cors middleware to a request it blocks: 400 with the
\* text of the error.
CorsRefused ==
    [ status |-> 400, headers |-> <<>>,
      body |-> << JsonValue("Origin is not allowed to make this request") >> ]

VaryHeader ==
    << "vary", << "Origin, Access-Control-Request-Method, Access-Control-Request-Headers" >> >>
AllowOriginHeader == << "access-control-allow-origin", << "origin" >> >>

\* The headers the Cors middleware can add to a response: the allowed
\* origin of the request, if it has one, and Vary.  Which of them it adds
\* is decided by actix-cors.
CorsAdds(origin) ==
    IF origin = "allowed"
    THEN { << AllowOriginHeader >>, << AllowOriginHeader, VaryHeader >> }
    ELSE { <<>>, << VaryHeader >> }

\* A request arrives for a registered endpoint, with the method of the
\* endpoint (end/actix.rs:73-83), or for a path without a route.  It has
\* passed error_handlers, the outer middleware, and is at the Cors
\* middleware (manager.rs:295-296).
Arrive(request, matched, mutability, actuality) ==
    /\ rq.op = "idle"
    /\ rq' = [ op |-> "cors",
               request |-> request,
               path |-> IF matched THEN EndpointPath ELSE UnknownPath,
               method |-> Method(mutability),
               endpoint |-> IF matched
                            THEN [mutability |-> mutability, actuality |-> actuality]
                            ELSE NoEndpoint,
               blocked |-> FALSE,
               extraction |-> NoExtraction,
               invoked |-> FALSE,
               result |-> NoHandlerResult,
               raw |-> NoResponse,
               response |-> NoResponse ]
    /\ UNCHANGED << managerVars, listenerVars, streamVars, chan, cors, errs >>

\* The Cors middleware judges the request (manager.rs:295).  A request of
\* a refused origin is answered by the middleware itself or passed on, as
\* actix-cors is set to (block); every other request goes on to the routes
\* of the scope, where a path without a route is answered 404.
CorsRequest(block) ==
    /\ rq.op = "cors"
    /\ rq' = IF rq.request.origin = "refused" /\ block
             THEN [rq EXCEPT !.op = "respond", !.blocked = TRUE, !.raw = CorsRefused]
             ELSE IF rq.endpoint # NoEndpoint
             THEN [rq EXCEPT !.op = "extract"]
             ELSE [rq EXCEPT !.op = "augment", !.raw = DefaultNotFound]
    /\ UNCHANGED << managerVars, listenerVars, streamVars, chan, cors, errs >>

\* The first await of the request handler (end/actix.rs:218): the input is
\* extracted; a failure ends the handler with the error's response.
Extract ==
    /\ rq.op = "extract"
    /\ LET x == ExtractQuery(rq.request, rq.endpoint.mutability)
       IN  rq' = [rq EXCEPT !.extraction = x,
                            !.op = IF x.ok THEN "handle" ELSE "augment",
                            !.raw = IF x.ok THEN NoResponse ELSE ErrorResponse(x.err)]
    /\ UNCHANGED << managerVars, listenerVars, streamVars, chan, cors, errs >>

\* The handler is called on the extracted input (end/actix.rs:219,
\* handler(query)); its future is pending and has no result yet.
Invoke ==
    /\ rq.op = "handle"
    /\ rq' = [rq EXCEPT !.invoked = TRUE, !.op = "pending"]
    /\ UNCHANGED << managerVars, listenerVars, streamVars, chan, cors, errs >>

\* The second await is over (end/actix.rs:219-220): the future of the
\* handler is ready; its item is sent by json_response, its Error by
\* error_response.
Handle(res) ==
    /\ rq.op = "pending"
    /\ rq' = [rq EXCEPT !.result = res,
                        !.op = "augment",
                        !.raw = IF res.ok
                                THEN JsonResponse(rq.endpoint.actuality, res.value)
                                ELSE ErrorResponse(res.err)]
    /\ UNCHANGED << managerVars, listenerVars, streamVars, chan, cors, errs >>

\* The response of the routes passes the Cors middleware on its way out
\* (manager.rs:295), which adds its headers.
CorsResponse(added) ==
    /\ rq.op = "augment"
    /\ added \in CorsAdds(rq.request.origin)
    /\ rq' = [rq EXCEPT !.op = "respond", !.raw.headers = @ \o added]
    /\ UNCHANGED << managerVars, listenerVars, streamVars, chan, cors, errs >>

\* The response passes the error_handlers middleware (manager.rs:296), the
\* outer one.
Respond ==
    /\ rq.op = "respond"
    /\ rq' = [rq EXCEPT !.op = "done",
                        !.response = ErrorHandlers(rq.raw, rq.path)]
    /\ UNCHANGED << managerVars, listenerVars, streamVars, chan, cors, errs >>

\* A server that only answers requests: the manager stays as built.
InitDispatch == InitCors

NextDispatch ==
    \/ \E request \in Requests, matched \in BOOLEAN, m \in Mutabilities, a \in Actualities :
           Arrive(request, matched, m, a)
    \/ \E block \in BOOLEAN : CorsRequest(block)
    \/ Extract
    \/ Invoke
    \/ \E res \in HandlerResults : Handle(res)
    \/ \E added \in CorsAdds("allowed") \cup CorsAdds("none") : CorsResponse(added)
    \/ Respond

SpecDispatch == InitDispatch /\ [][NextDispatch]_vars

\* The members of the JSON object a response body holds.
BodyFields(body) == { body[i] : i \in 2..(Len(body) - 1) }

\* C16: GET endpoints extract from the query string and POST endpoints from
\* the JSON body; the handler runs only after extraction succeeded; when
\* extraction failed the handler never runs and the client gets 400 with
\* title "Query parse error" (Immutable) or "JSON body parse error"
\* (Mutable) and the parser's message as detail.
C16_DispatchOrder ==
    /\ (rq.op \in {"handle", "pending", "augment", "respond", "done"}
           /\ rq.endpoint # NoEndpoint
           /\ ~rq.blocked) =>
          /\ rq.endpoint.mutability = "Immutable" =>
                /\ rq.method = "GET"
                /\ rq.extraction.source = "query"
                /\ rq.extraction.ok = rq.request.query.ok
          /\ rq.endpoint.mutability = "Mutable" =>
                /\ rq.method = "POST"
                /\ rq.extraction.source = "json"
                /\ rq.extraction.ok = rq.request.payload.ok
    /\ rq.op # "idle" /\ rq.invoked => rq.extraction.ok
    /\ rq.op # "idle" /\ rq.blocked => ~rq.invoked /\ rq.extraction = NoExtraction
    /\ (rq.op = "done" /\ rq.extraction.source # "none" /\ ~rq.extraction.ok) =>
          /\ ~rq.invoked
          /\ rq.response.status = 400
          /\ BodyFields(rq.response.body) =
                IF rq.endpoint.mutability = "Immutable"
                THEN { JsonStr("title", "Query parse error"),
                       JsonStr("detail", rq.request.query.msg) }
                ELSE { JsonStr("title", "JSON body parse error"),
                       JsonStr("detail", rq.request.payload.msg) }

\* C16 witness: a POST whose query string is fine and whose JSON body is
\* malformed was answered without the handler having run.
C16_Witness ==
    /\ rq.op = "done"
    /\ rq.endpoint.mutability = "Mutable"
    /\ rq.request.query.ok
    /\ ~rq.request.payload.ok
    /\ ~rq.invoked
    /\ rq.response.status = 400

WarningHeaders(res) ==
    { i \in 1..Len(res.headers) : res.headers[i][1] = "warning" }

\* The text between 299 - " and the closing quote of a Warning value.
WarningMessage(value) == SubSeq(value, 2, Len(value) - 1)

EndsWith(text, tail) ==
    Len(text) >= Len(tail) /\ SubSeq(text, Len(text) - Len(tail) + 1, Len(text)) = tail

\* C17: a response carries the Warning 299 header exactly when the endpoint
\* is Deprecated and the handler returned success with status 200; the
\* message names the formatted date when discontinued_on is set, otherwise
\* says that there is no specific date, and ends with "Additional
\* information: <description>." exactly when a description is present.
C17_DeprecationWarning ==
    rq.op = "done" =>
        LET deprecatedOk == /\ rq.endpoint.actuality.kind = "Deprecated"
                            /\ rq.invoked /\ rq.result.ok
                            /\ rq.response.status = 200
            a == rq.endpoint.actuality
        IN  /\ WarningHeaders(rq.response) # {} <=> deprecatedOk
            /\ deprecatedOk =>
                  /\ Cardinality(WarningHeaders(rq.response)) = 1
                  /\ \A i \in WarningHeaders(rq.response) :
                        LET value == rq.response.headers[i][2]
                            msg == WarningMessage(value)
                        IN  /\ value[1] = "299 - \"" /\ value[Len(value)] = "\""
                            /\ msg[1] = DeprecatedPrefix
                            /\ IF a.discontinued_on.some
                               THEN /\ IsSubstring(<< MaintainedUntil >>
                                                     \o FormatDate(a.discontinued_on.date), msg)
                                    /\ \A k \in 1..Len(msg) : msg[k] # NoSpecificDate
                               ELSE /\ msg[2] = NoSpecificDate
                                    /\ \A k \in 1..Len(msg) : msg[k] # MaintainedUntil
                            /\ a.description.some <=>
                                  \E t \in {"use v2", ""} :
                                      /\ EndsWith(msg, << AdditionalInformation, t, "." >>)
                                      /\ a.description.some /\ a.description.text = t
                            /\ ~a.description.some =>
                                  \A k \in 1..Len(msg) : msg[k] # AdditionalInformation

\* C17 witness: a deprecated endpoint with a date and a description answered
\* successfully, with the Warning header.
C17_Witness ==
    /\ rq.op = "done"
    /\ rq.endpoint.actuality.kind = "Deprecated"
    /\ rq.endpoint.actuality.discontinued_on.some
    /\ rq.endpoint.actuality.description = SomeDescription("use v2")
    /\ rq.result.ok
    /\ WarningHeaders(rq.response) # {}

\* C18: the catch-all mappings apply only to requests that reached no
\* handler; an Error returned by a handler reaches the client verbatim,
\* with its own status, body and headers, also when it is a 404 or 400
\* whose body fields are all empty.
C18_HandlerErrorVerbatim ==
    rq.op = "done" /\ rq.invoked /\ ~rq.result.ok =>
        LET own == ErrorResponse(rq.result.err)
        IN  /\ rq.response.status = own.status
            /\ rq.response.body = own.body
            /\ \A i \in 1..Len(own.headers) :
                   \E k \in 1..Len(rq.response.headers) :
                       rq.response.headers[k] = own.headers[i]

\* ============================================================ route tables
\* ApiScope::new (lib.rs:63-66): a scope without endpoints.
ScopeNew == <<>>

\* ApiScope::endpoint and endpoint_mut (lib.rs:68-90) push a handler with
\* the endpoint's name and method (end/actix.rs:68-71).
ScopeEndpoint(handlers, name) == Append(handlers, << name, Method("Immutable") >>)
ScopeEndpointMut(handlers, name) == Append(handlers, << name, Method("Mutable") >>)

\* The builders services register (lib.rs:97-115), each with an endpoint
\* only its public scope has and one only its private scope has.
BuilderScopes(b) ==
    IF b = "b1"
    THEN [ public_scope |-> ScopeEndpointMut(ScopeEndpoint(ScopeNew, "info"), "submit"),
           private_scope |-> ScopeEndpoint(ScopeEndpoint(ScopeNew, "peers"), "info") ]
    ELSE [ public_scope |-> ScopeEndpoint(ScopeNew, "status"),
           private_scope |-> ScopeEndpointMut(ScopeNew, "shutdown") ]

\* Variant of ScopeOf: every listener gets the public scope.
ScopeOf_publicOnly(builder, access) == builder.public_scope

\* The scope extend_backend takes from a builder (lib.rs:160-165).
ScopeOf(builder, access) ==
    IF access = "Public" THEN builder.public_scope ELSE builder.private_scope

\* ApiBuilder::wire into scope(name) (end/actix.rs:73-83, 92): one route per
\* handler, in the order of the handlers.
Wire(name, handlers) ==
    [ i \in 1..Len(handlers) |-> << name, handlers[i][1], handlers[i][2] >> ]

\* The order in which a BTreeMap<String, _> is iterated (lib.rs:159).
NameOrder == << "a", "b" >>

\* ApiAggregator::extend_backend (lib.rs:157-166) with ExtendApiBackend for
\* Scope (end/actix.rs:86-96): the routes of the services, service by
\* service.
ExtendBackend(agg, access) ==
    Concat([ i \in 1..Len(NameOrder) |->
               IF agg[NameOrder[i]] = Absent THEN <<>>
               ELSE Wire(NameOrder[i], ScopeOf(BuilderScopes(agg[NameOrder[i]]), access)) ])

\* The routes of a listener: those of the aggregator its app factory holds
\* (manager.rs:293-297).
Routes(l) == ExtendBackend(served[l], l[2])

Position(q, x) == CHOOSE i \in 1..Len(q) : q[i] = x
Elements(q) == { q[i] : i \in 1..Len(q) }

\* C19: a listener is wired with exactly the scopes of its access level of
\* all registered services, in service-name order and, within a scope, in
\* registration order; an endpoint only in a private scope is not routable
\* on the Public listener and one only in a public scope not on the Private
\* listener.
C19_AccessSeparation ==
    \A l \in Listeners : Bound(l) =>
        LET R == Routes(l)
            reg == { n \in ServiceNames : served[l][n] # Absent }
            pub(n) == Elements(BuilderScopes(served[l][n]).public_scope)
            priv(n) == Elements(BuilderScopes(served[l][n]).private_scope)
            own(n) == IF l[2] = "Public" THEN pub(n) ELSE priv(n)
            other(n) == IF l[2] = "Public" THEN priv(n) ELSE pub(n)
            ownSeq(n) == IF l[2] = "Public" THEN BuilderScopes(served[l][n]).public_scope
                         ELSE BuilderScopes(served[l][n]).private_scope
        IN  /\ Elements(R) = UNION { { << n, e[1], e[2] >> : e \in own(n) } : n \in reg }
            /\ Len(R) = Cardinality(Elements(R))
            /\ \A i, j \in 1..Len(R) : i < j =>
                  \/ Position(NameOrder, R[i][1]) < Position(NameOrder, R[j][1])
                  \/ /\ R[i][1] = R[j][1]
                     /\ Position(ownSeq(R[i][1]), << R[i][2], R[i][3] >>)
                            < Position(ownSeq(R[j][1]), << R[j][2], R[j][3] >>)
            /\ \A n \in reg : \A e \in other(n) \ own(n) : << n, e[1], e[2] >> \notin Elements(R)

\* C19 witness: after an update a Public listener serves two services, one
\* of which has an endpoint only in its private scope.
C19_Witness ==
    \E l \in Listeners :
        /\ Bound(l)
        /\ l[2] = "Public"
        /\ served[l]["a"] = "b1"
        /\ served[l]["b"] = "b2"
        /\ Routes(l) = << << "a", "info", "GET" >>, << "a", "submit", "POST" >>,
                          << "b", "status", "GET" >> >>

\* C20: retry_timeout is waited only between two consecutive bind attempts
\* of one access level: a start that made N attempts waited N-1 delays, and
\* no delay follows the final attempt, be it the success or the last
\* failure.
C20_DelayOnlyBetweenAttempts ==
    \A a \in ApiAccess :
        /\ retry[a].at \in {"ok", "err"} /\ retry[a].attempt >= 1 =>
              retry[a].delays = retry[a].attempt - 1
        /\ retry[a].at = "sleep" => retry[a].attempt < MaxRetries

\* ------------------------------------------------- before the first update
\* C21: from the call of run until the first update is taken the listener
\* set is empty, no start is entered and no bind attempt is made; if the
\* stream closes without an update, run returns success and no listener
\* was ever bound.
C21_NoListenerBeforeFirstUpdate ==
    Len(applied) = 0 =>
        /\ servers = {}
        /\ nStarts = 0
        /\ \A a \in ApiAccess : retry[a] = RetryIdle
        /\ \A l \in Listeners : lst[l] = "none" /\ sends[l] = 0
        /\ chan = <<>>
        /\ pc \in {"wait", "stopping", "finishing", "done"}
        /\ ~taken.some =>
              /\ pc # "stopping"
              /\ sentLog = stream
              /\ pc \in {"finishing", "done"} =>
                    inner = OkResult /\ streamClosed /\ stream = <<>>
              /\ pc = "done" => result = OkResult

\* C21 witness: the stream was closed without an update and run has
\* returned.
C21_Witness ==
    /\ Len(applied) = 0
    /\ sentLog = <<>>
    /\ streamClosed
    /\ pc = "done"
    /\ result = OkResult

\* A listener of the current generation has ended with success without a
\* stop by the manager, and its outcome waits in the completion channel.
SignalExitPending == \E i \in 1..Len(chan) : chan[i].res = "Ok"

\* C22: once the success outcome of a listener of the current generation,
\* which the manager did not request, waits in the channel, the next step of
\* the loop makes run return success with every listener stopped; the
\* manager does not go on running.
C22_SignalExitShutsDown ==
    [][ (pc = "wait" /\ SignalExitPending /\ ~ListenerFailurePending /\ pc' # "wait") =>
            /\ pc' = "finishing"
            /\ inner'.kind = "Ok"
            /\ servers' = {}
            /\ \A l \in Listeners : lst'[l] \notin {"bound", "running"} ]_vars

====
